---------------------------- MODULE Spec2Model ----------------------------
(***************************************************************************)
(* Playback orchestration of the document reader (App component, first     *)
(* revision in src/unnamed/part_000, lines 11-772).                        *)
(*                                                                         *)
(* The component is a single-threaded event loop program.  One action of   *)
(* this module is one task of that loop: a user event handler, or the      *)
(* delivery of one platform event (a settled synthesis request, a timer, a *)
(* media event) together with every promise continuation (microtask) it    *)
(* triggers.                                                               *)
(*                                                                         *)
(* React state is read by a handler through the closure of the render in   *)
(* which the handler was created; refs are read live.  A handler chain     *)
(* therefore carries the render it was created in (a record r), and reads  *)
(* chunks, timeLeft, timerDuration, ttsEngine, selectedVoice from r, not   *)
(* from the current state.                                                 *)
(***************************************************************************)
EXTENDS Integers, Sequences, FiniteSets, Bags, TLC

(***************************************************************************)
(* Bounds of the model.                                                    *)
(***************************************************************************)
NumSegments == 3      \* segments the document splits into
MaxSession  == 5      \* generations a run may open
MaxFetches  == 2      \* synthesis requests outstanding at once
MaxTimeouts == 1      \* look-ahead timeouts pending at once
MaxQueued   == 1      \* utterances held by the platform queue at once
MaxSources  == 2      \* clip sources started and not yet reported ended
\* the same, for the runs that offer every control
MaxSessionAll == 4
MaxFetchesAll == 1
MaxSourcesAll == 1
\* for the runs with the audio clock running
MaxSessionClock == 3
MaxTime == 2          \* seconds the audio clock may run
\* for the calls of splitTextIntoChunks
MaxLen   == 5         \* characters of the text
MaxChars == 3         \* the greatest maxChars tried on such a text
\* for the runs with the highlight estimator
SegmentLength == 3    \* characters of a segment
\* for the calls of generateSpeechFromText
MaxTextLen == 3       \* characters of the text
MaxParts == 2         \* parts of a response
\* for the fills that decode their payload
MaxBytes == 5         \* bytes of a payload

(***************************************************************************)
(* Program constants.                                                      *)
(***************************************************************************)
DefaultTimerMinutes == 30
SecondsPerMinute    == 60
GeminiChunkSize     == 200
BrowserChunkSize    == 2500
DefaultRate         == 4     \* playbackRate 1.0, in steps of 0.25
NumChannels         == 1     \* decodeAudioData's default
Retries             == 3     \* attempts of generateSpeechFromText
BackoffMs           == 1000  \* the first delay between two attempts

\* buffer.duration of a clip, in quarters of a second of audio: 2 seconds
ClipDuration == 2 * DefaultRate

NULL == -1            \* timeLeft === null

Engines == {"gemini", "browser"}
Voices  == {"Kore", "Puck"}
BrowserVoice == "LiLi"
TimerOptions == {0, DefaultTimerMinutes}
Texts   == {"", " ", "doc"}
Rates   == {DefaultRate, 2 * DefaultRate}   \* 1.0x and 2.0x

\* the answers of the synthesis service to a request: a string that is not
\* base64, or the base64 of so many bytes
Payloads ==
    {[valid |-> FALSE, byteLength |-> 0]}
        \cup {[valid |-> TRUE, byteLength |-> n] : n \in 0..MaxBytes}

NoSource == [index |-> -1]   \* sourceNodeRef.current === null
NoFrame  == [index |-> -1]

VARIABLES
    \* React state (src/unnamed/part_000:13-37,49)
    extractedText, status, errorMsg, ttsEngine, selectedVoice,
    timerDuration, timeLeft, chunks, currentChunkIndex, chunkProgressIndex,
    isPlaying, playbackRate,
    \* refs (src/unnamed/part_000:40-54)
    audioContext, sourceNodeRef, audioCacheRef, fetchingSetRef,
    pausedTimeRef, startTimeRef, isPlayingRef, animationFrame, sessionIdRef,
    \* work in flight on the platform side
    fetches,        \* generateSpeechFromText calls not yet settled
    timeouts,       \* setTimeout(…, 5000) callbacks not yet run
    resumeWaiters,  \* playSequence calls suspended at await resume()
    sources,        \* AudioBufferSourceNodes started, 'ended' not yet delivered
    utterances,     \* the speechSynthesis queue, head being spoken
    cancelled,      \* utterances cancelled, final event not yet delivered
    currentTime,    \* audioContext.currentTime
    \* history (read by the properties only)
    overtook,       \* the segment jumped to while handleStartProcess awaited
                    \* its first clip, in the generation that jump opened
    position,       \* the segment of sourceNodeRef and the place in its clip
                    \* the audio has reached, in quarters of a second
    run,            \* the control that opened the current generation and
                    \* the segments begun in it, while nothing but
                    \* successful platform events has happened since
    budget,         \* generations this run may open, requests and sources
                    \* it may have outstanding
    call            \* a call of splitTextIntoChunks: its arguments and,
                    \* once it returned, its result and (history) the
                    \* sentence of the split each chunk begins with

vars == << extractedText, status, errorMsg, ttsEngine, selectedVoice,
           timerDuration, timeLeft, chunks, currentChunkIndex,
           chunkProgressIndex, isPlaying, playbackRate, audioContext, sourceNodeRef,
           audioCacheRef, fetchingSetRef, pausedTimeRef, startTimeRef,
           isPlayingRef, animationFrame, sessionIdRef, fetches, timeouts,
           resumeWaiters, sources, utterances, cancelled, currentTime,
           overtook, position, run, budget, call >>

(***************************************************************************)
(* The whole state as one record, so that a handler is a function from     *)
(* state to state and a call is function application.                      *)
(***************************************************************************)
State ==
    [ extractedText |-> extractedText, status |-> status,
      errorMsg |-> errorMsg, ttsEngine |-> ttsEngine,
      selectedVoice |-> selectedVoice, timerDuration |-> timerDuration,
      timeLeft |-> timeLeft, chunks |-> chunks,
      currentChunkIndex |-> currentChunkIndex,
      chunkProgressIndex |-> chunkProgressIndex, isPlaying |-> isPlaying,
      playbackRate |-> playbackRate,
      audioContext |-> audioContext, sourceNodeRef |-> sourceNodeRef,
      audioCacheRef |-> audioCacheRef, fetchingSetRef |-> fetchingSetRef,
      pausedTimeRef |-> pausedTimeRef, startTimeRef |-> startTimeRef,
      isPlayingRef |-> isPlayingRef,
      animationFrame |-> animationFrame, sessionIdRef |-> sessionIdRef,
      fetches |-> fetches, timeouts |-> timeouts,
      resumeWaiters |-> resumeWaiters, sources |-> sources,
      utterances |-> utterances, cancelled |-> cancelled,
      currentTime |-> currentTime, overtook |-> overtook,
      position |-> position, run |-> run ]

CommitSession(s) ==
    /\ extractedText' = s.extractedText
    /\ status' = s.status
    /\ errorMsg' = s.errorMsg
    /\ ttsEngine' = s.ttsEngine
    /\ selectedVoice' = s.selectedVoice
    /\ timerDuration' = s.timerDuration
    /\ timeLeft' = s.timeLeft
    /\ chunks' = s.chunks
    /\ currentChunkIndex' = s.currentChunkIndex
    /\ chunkProgressIndex' = s.chunkProgressIndex
    /\ isPlaying' = s.isPlaying
    /\ playbackRate' = s.playbackRate
    /\ audioContext' = s.audioContext
    /\ sourceNodeRef' = s.sourceNodeRef
    /\ audioCacheRef' = s.audioCacheRef
    /\ fetchingSetRef' = s.fetchingSetRef
    /\ pausedTimeRef' = s.pausedTimeRef
    /\ startTimeRef' = s.startTimeRef
    /\ isPlayingRef' = s.isPlayingRef
    /\ animationFrame' = s.animationFrame
    /\ sessionIdRef' = s.sessionIdRef
    /\ fetches' = s.fetches
    /\ timeouts' = s.timeouts
    /\ resumeWaiters' = s.resumeWaiters
    /\ sources' = s.sources
    /\ utterances' = s.utterances
    /\ cancelled' = s.cancelled
    /\ currentTime' = s.currentTime
    /\ overtook' = s.overtook
    /\ position' = s.position
    /\ run' = s.run
    /\ budget' = budget

Commit(s) == CommitSession(s) /\ call' = call

(***************************************************************************)
(* The render a handler closes over.                                       *)
(***************************************************************************)
Render ==
    [ chunks |-> chunks, timeLeft |-> timeLeft,
      timerDuration |-> timerDuration, ttsEngine |-> ttsEngine,
      selectedVoice |-> selectedVoice, status |-> status,
      extractedText |-> extractedText,
      currentChunkIndex |-> currentChunkIndex,
      playbackRate |-> playbackRate ]

\* The part of a render that an asynchronous chain can still read.  Of the
\* timer the chain reads two tests only: that of preloadGeminiChunk
\* (line 285) and that of playSequence (line 401).
Closure(r) ==
    [ chunks |-> r.chunks, ttsEngine |-> r.ttsEngine,
      selectedVoice |-> r.selectedVoice, playbackRate |-> r.playbackRate,
      timeUp |-> r.timeLeft = 0 /\ r.timerDuration > 0,
      expired |-> r.timerDuration > 0 /\ r.timeLeft # NULL /\ r.timeLeft <= 0 ]

Boot ==
    /\ extractedText = ""
    /\ status = "IDLE"
    /\ errorMsg = "null"
    /\ ttsEngine = "gemini"
    /\ selectedVoice = "Kore"
    /\ timerDuration = DefaultTimerMinutes
    /\ timeLeft = NULL
    /\ chunks = <<>>
    /\ currentChunkIndex = 0
    /\ chunkProgressIndex = -1
    /\ isPlaying = FALSE
    /\ playbackRate = DefaultRate
    /\ audioContext = "null"
    /\ sourceNodeRef = NoSource
    /\ audioCacheRef = {}
    /\ fetchingSetRef = {}
    /\ pausedTimeRef = 0
    /\ startTimeRef = 0
    /\ isPlayingRef = FALSE
    /\ animationFrame = NoFrame
    /\ sessionIdRef = 0
    /\ fetches = EmptyBag
    /\ timeouts = {}
    /\ resumeWaiters = <<>>
    /\ sources = EmptyBag
    /\ utterances = <<>>
    /\ cancelled = {}
    /\ currentTime = 0
    /\ overtook = NULL
    /\ position = [index |-> -1]
    /\ run = [by |-> "none", index |-> 0, begun |-> 0]

\* no call of splitTextIntoChunks is looked at
NoCall ==
    [text |-> <<>>, maxChars |-> 0, returned |-> FALSE, chunks |-> <<>>,
     starts |-> <<>>]

Init ==
    /\ Boot
    /\ budget = [session |-> MaxSession, fetches |-> MaxFetches,
                 sources |-> MaxSources]
    /\ call = NoCall

InitClock ==
    /\ Boot
    /\ budget = [session |-> MaxSessionClock, fetches |-> MaxFetchesAll,
                 sources |-> MaxSources]
    /\ call = NoCall

InitAll ==
    /\ Boot
    /\ budget = [session |-> MaxSessionAll, fetches |-> MaxFetchesAll,
                 sources |-> MaxSourcesAll]
    /\ call = NoCall


(***************************************************************************)
(* The document.  The text is abstract: what the session needs of it is    *)
(* whether it is empty, whether it is blank, and the segments it yields.   *)
(***************************************************************************)
Trim(text) == IF text = " " THEN "" ELSE text

\* The segments splitTextIntoChunks yields for a text of the model: a
\* segment is named by the chunk size it was cut for and its position.
SegmentsOf(text, chunkSize) ==
    IF Trim(text) = "" THEN <<>>
    ELSE [i \in 1..NumSegments |-> [size |-> chunkSize, pos |-> i - 1]]

ChunkSizeOf(engine) ==
    IF engine = "gemini" THEN GeminiChunkSize ELSE BrowserChunkSize

FullTimer(minutes) == minutes * SecondsPerMinute

(***************************************************************************)
(* splitTextIntoChunks (src/unnamed/part_001).  A string is the sequence   *)
(* of its characters.                                                      *)
(***************************************************************************)
\* the characters of the class [。.！!？?\n\r] that the model writes
Delimiters == {".", "!", "?", "\n", "\r"}

\* the characters String.prototype.trim removes
WhiteSpace == {" ", "\t", "\n", "\r"}

IsDelimiter(c) == c \in Delimiters
IsSpace(c) == c \in WhiteSpace

RECURSIVE TrimStart(_)
TrimStart(str) ==
    IF str # <<>> /\ IsSpace(Head(str)) THEN TrimStart(Tail(str)) ELSE str

RECURSIVE TrimEnd(_)
TrimEnd(str) ==
    IF str # <<>> /\ IsSpace(str[Len(str)])
    THEN TrimEnd(SubSeq(str, 1, Len(str) - 1)) ELSE str

\* String.prototype.trim
TrimSeq(str) == TrimEnd(TrimStart(str))

\* text.split(/([。.！!？?\n\r]+)/): the pieces between the delimiter runs
\* at the odd places, the runs (the capturing group) at the even places; a
\* text that begins or ends with a run has an empty piece there.
RECURSIVE SplitFrom(_, _, _)
SplitFrom(str, i, acc) ==
    IF i > Len(str)
    THEN IF Len(acc) % 2 = 0 THEN Append(acc, <<>>) ELSE acc
    ELSE LET c    == str[i]
             last == Len(acc)
             same == IsDelimiter(c) <=> (last % 2 = 0)
         IN  SplitFrom(str, i + 1,
                       IF same THEN [acc EXCEPT ![last] = Append(@, c)]
                       ELSE Append(acc, <<c>>))

Sentences(str) == SplitFrom(str, 1, << <<>> >>)

\* line 16: the test that saves the current chunk before sentence s is added
\* with the limit itself counted as too long
FlushesAtLimit(currentChunk, s, maxChars) ==
    /\ Len(currentChunk) + Len(s) >= maxChars
    /\ Len(TrimSeq(currentChunk)) > 0

\* line 16 looking at the current chunk alone
FlushesWhenFull(currentChunk, s, maxChars) ==
    /\ Len(currentChunk) > maxChars
    /\ Len(TrimSeq(currentChunk)) > 0

Flushes(currentChunk, s, maxChars) ==
    /\ Len(currentChunk) + Len(s) > maxChars
    /\ Len(TrimSeq(currentChunk)) > 0

\* A chunk is kept (chunks.push) with the place of its first sentence in the
\* split; done is the array chunks so far.
Pushed(done, currentChunk, first) ==
    Append(done, [chunk |-> TrimSeq(currentChunk), first |-> first])

\* lines 24-26 without the push
RemainderDropped(done, currentChunk, first) == done

\* lines 24-26: the rest is added
Remainder(done, currentChunk, first) ==
    IF Len(TrimSeq(currentChunk)) > 0
    THEN Pushed(done, currentChunk, first)
    ELSE done

\* lines 13-21: the loop from sentence i on
RECURSIVE ChunkLoop(_, _, _, _, _, _)
ChunkLoop(sentences, i, done, currentChunk, first, maxChars) ==
    IF i > Len(sentences) THEN Remainder(done, currentChunk, first)
    ELSE LET s == sentences[i] IN
         IF Flushes(currentChunk, s, maxChars)
         THEN ChunkLoop(sentences, i + 1,
                        Pushed(done, currentChunk, first), s, i, maxChars)
         ELSE ChunkLoop(sentences, i + 1, done, currentChunk \o s,
                        first, maxChars)

\* the chunks with the place each begins at
Chunked(str, maxChars) ==
    IF str = <<>> THEN <<>>
    ELSE ChunkLoop(Sentences(str), 1, <<>>, <<>>, 1, maxChars)

splitTextIntoChunks(str, maxChars) ==
    LET parts == Chunked(str, maxChars) IN
    [k \in 1..Len(parts) |-> parts[k].chunk]

(***************************************************************************)
(* Platform objects.                                                       *)
(***************************************************************************)
\* fetches and sources are bags: two requests, or two nodes, created with
\* the same arguments are two objects.
One(x) == SetToBag({x})

\* AudioBufferSourceNode.stop() on sourceNodeRef.current: the node stops
\* and reports 'ended' in a later task.  On a node that already ended the
\* call does nothing (a throw is caught).
StopNode(s) ==
    IF BagIn(s.sourceNodeRef, s.sources)
    THEN [s EXCEPT !.sources =
             (@ (-) One(s.sourceNodeRef))
               (+) One([s.sourceNodeRef EXCEPT !.stopped = TRUE])]
    ELSE s

StopSource(s) ==
    IF s.sourceNodeRef # NoSource
    THEN [StopNode(s) EXCEPT !.sourceNodeRef = NoSource]
    ELSE s

\* window.speechSynthesis.cancel(): the queue is emptied; the utterance
\* being spoken still has its final event to deliver.
SpeechCancel(s) ==
    IF s.utterances = <<>> THEN s
    ELSE [s EXCEPT !.utterances = <<>>,
                   !.cancelled = @ \cup {Head(s.utterances)}]

CancelFrame(s) == [s EXCEPT !.animationFrame = NoFrame]

\* audioContextRef.current.state === 'suspended'
CtxSuspended(s) == s.audioContext \in {"suspended", "resuming"}

\* new AudioContext(): created suspended, started by the platform.
NewContext(s) ==
    IF s.audioContext = "null" THEN [s EXCEPT !.audioContext = "resuming"] ELSE s

CtxResume(s) ==
    IF CtxSuspended(s) THEN [s EXCEPT !.audioContext = "resuming"] ELSE s

CtxSuspendIfRunning(s) ==
    IF s.audioContext = "running" THEN [s EXCEPT !.audioContext = "suspended"] ELSE s

unlockAudioContext(s) == CtxResume(NewContext(s))

(***************************************************************************)
(* resetAudioState                                                         *)
(***************************************************************************)
\* resetAudioState without line 201
resetAudioStateKeepsSession(s, r) ==
    LET s1 == [s EXCEPT !.isPlayingRef = FALSE, !.isPlaying = FALSE,
                        !.chunkProgressIndex = -1]
        s2 == SpeechCancel(StopSource(CancelFrame(s1)))
    IN  [s2 EXCEPT !.audioCacheRef = {},
                   !.fetchingSetRef = {},
                   !.currentChunkIndex = 0,
                   !.pausedTimeRef = 0,
                   !.timeLeft = IF r.timerDuration > 0
                                THEN FullTimer(r.timerDuration) ELSE NULL]

resetAudioState(s, r) ==
    LET s1 == [s EXCEPT !.isPlayingRef = FALSE, !.isPlaying = FALSE,
                        !.chunkProgressIndex = -1]
        s2 == SpeechCancel(StopSource(CancelFrame(s1)))
    IN  [s2 EXCEPT !.audioCacheRef = {},
                   !.fetchingSetRef = {},
                   !.sessionIdRef = @ + 1,
                   !.currentChunkIndex = 0,
                   !.pausedTimeRef = 0,
                   !.timeLeft = IF r.timerDuration > 0
                                THEN FullTimer(r.timerDuration) ELSE NULL]

(***************************************************************************)
(* preloadGeminiChunk, up to its first await.                              *)
(***************************************************************************)
CacheHas(s, index) == \E c \in s.audioCacheRef : c.index = index

PreloadStarts(s, index, r) ==
    /\ ~r.timeUp
    /\ ~(index >= Len(r.chunks) \/ index < 0)
    /\ ~CacheHas(s, index)
    /\ index \notin s.fetchingSetRef

\* waiter: the async function awaiting this call ("start", "play") or
\* "none" for a call whose promise is dropped; cc: the waiter's chunks.
preloadGeminiChunk(s, index, sid, r, waiter, cc) ==
    IF PreloadStarts(s, index, r)
    THEN LET f == [index |-> index, sid |-> sid, r |-> r,
                   waiter |-> waiter, cc |-> cc]
         IN  [s EXCEPT !.fetchingSetRef = @ \cup {index},
                       !.fetches = @ (+) One(f)]
    ELSE s

(***************************************************************************)
(* playSequence.  The function is cut at its awaits: playSequence is the   *)
(* part up to await resume(), AfterResume the part up to                   *)
(* await preloadGeminiChunk(), AfterPreload the part from there to the     *)
(* end, of which PlayBuffer is the tail that starts the clip.              *)
(***************************************************************************)
\* lines 503-562: look-ahead, source creation and start, highlight loop
PlayBuffer(s, index, sid, cc, r) ==
    LET s1  == preloadGeminiChunk(s, index + 1, sid, r, "none", <<>>)
        s2  == [s1 EXCEPT !.timeouts =
                   @ \cup {[index |-> index + 2, sid |-> sid, r |-> r]}]
        src == [index |-> index, sid |-> sid, cc |-> cc, r |-> r,
                offset |-> s2.pausedTimeRef, rate |-> r.playbackRate,
                stopped |-> FALSE]
        s3  == [s2 EXCEPT !.sources = @ (+) One(src),
                          !.startTimeRef = s2.currentTime,
                          !.sourceNodeRef = src,
                          !.animationFrame =
                              [index |-> index, sid |-> sid,
                               offset |-> s2.pausedTimeRef,
                               rate |-> r.playbackRate,
                               bufferDuration |-> ClipDuration,
                               chunkTextLength |-> SegmentLength]]
    IN  s3

\* lines 485-501: after await preloadGeminiChunk(index, currentSessionId)
AfterPreload(s, index, sid, cc, r) ==
    IF s.sessionIdRef # sid THEN s
    ELSE IF ~CacheHas(s, index)
         THEN [s EXCEPT !.isPlaying = FALSE, !.isPlayingRef = FALSE,
                        !.status = "ERROR", !.errorMsg = "buffering"]
         ELSE PlayBuffer([s EXCEPT !.status = "PLAYING"], index, sid, cc, r)

\* lines 479-484: after the context check
AfterResume(s, index, sid, cc, r) ==
    IF CacheHas(s, index)
    THEN PlayBuffer(s, index, sid, cc, r)
    ELSE LET s1 == [s EXCEPT !.status = "GENERATING_AUDIO"]
         IN  IF PreloadStarts(s1, index, r)
             THEN preloadGeminiChunk(s1, index, sid, r, "play", cc)
             ELSE AfterPreload(s1, index, sid, cc, r)

\* lines 425-463: speechSynthesis.speak(utterance)
Speak(s, index, sid, cc, r) ==
    [s EXCEPT !.utterances =
        Append(@, [index |-> index, sid |-> sid, cc |-> cc, r |-> r])]

\* playSequence that leaves the cursor past the last segment at the end
playSequencePastEnd(s, index, cc, r) ==
    LET sid == s.sessionIdRef IN
    IF r.expired
    THEN [s EXCEPT !.isPlaying = FALSE, !.isPlayingRef = FALSE,
                   !.status = "READY_TO_PLAY"]
    ELSE IF index >= Len(cc)
    THEN [s EXCEPT !.isPlaying = FALSE, !.isPlayingRef = FALSE,
                   !.status = "IDLE", !.currentChunkIndex = index,
                   !.pausedTimeRef = 0, !.chunkProgressIndex = -1]
    ELSE LET s1 == [s EXCEPT !.currentChunkIndex = index,
                             !.isPlaying = TRUE, !.isPlayingRef = TRUE,
                             !.status = "PLAYING",
                             !.chunkProgressIndex = 0]
         IN  IF r.ttsEngine = "browser"
             THEN Speak(s1, index, sid, cc, r)
             ELSE LET s2 == NewContext(s1) IN
                  IF CtxSuspended(s2)
                  THEN [CtxResume(s2) EXCEPT !.resumeWaiters =
                           Append(@, [index |-> index, sid |-> sid,
                                      cc |-> cc, r |-> r])]
                  ELSE AfterResume(s2, index, sid, cc, r)

playSequence(s, index, cc, r) ==
    LET sid == s.sessionIdRef IN
    IF r.expired
    THEN [s EXCEPT !.isPlaying = FALSE, !.isPlayingRef = FALSE,
                   !.status = "READY_TO_PLAY"]
    ELSE IF index >= Len(cc)
    THEN [s EXCEPT !.isPlaying = FALSE, !.isPlayingRef = FALSE,
                   !.status = "IDLE", !.currentChunkIndex = 0,
                   !.pausedTimeRef = 0, !.chunkProgressIndex = -1]
    ELSE LET s1 == [s EXCEPT !.currentChunkIndex = index,
                             !.isPlaying = TRUE, !.isPlayingRef = TRUE,
                             !.status = "PLAYING",
                             !.chunkProgressIndex = 0]
         IN  IF r.ttsEngine = "browser"
             THEN Speak(s1, index, sid, cc, r)
             ELSE LET s2 == NewContext(s1) IN
                  IF CtxSuspended(s2)
                  THEN [CtxResume(s2) EXCEPT !.resumeWaiters =
                           Append(@, [index |-> index, sid |-> sid,
                                      cc |-> cc, r |-> r])]
                  ELSE AfterResume(s2, index, sid, cc, r)

(***************************************************************************)
(* handleStartProcess                                                      *)
(***************************************************************************)
\* lines 383-391: after await preloadGeminiChunk(0, currentSessionId)
AfterStartPreload(s, sid, newChunks, r) ==
    IF sid # s.sessionIdRef THEN s
    ELSE IF CacheHas(s, 0)
         THEN playSequence([s EXCEPT !.status = "READY_TO_PLAY"], 0, newChunks, r)
         ELSE [s EXCEPT !.errorMsg = "generation", !.status = "IDLE"]

handleStartProcess(s, r) ==
    IF r.extractedText = "" THEN s
    ELSE
    LET s1 == IF r.ttsEngine = "gemini" THEN unlockAudioContext(s) ELSE s
        s2 == resetAudioState(s1, r)
        s3 == [s2 EXCEPT !.timeLeft = IF r.timerDuration > 0
                                      THEN FullTimer(r.timerDuration) ELSE NULL]
        newChunks == SegmentsOf(r.extractedText, ChunkSizeOf(r.ttsEngine))
        s4 == [s3 EXCEPT !.chunks = newChunks]
    IN  IF Len(newChunks) = 0 THEN s4
        ELSE IF r.ttsEngine = "gemini"
        THEN LET s5  == [s4 EXCEPT !.status = "GENERATING_AUDIO"]
                 sid == s5.sessionIdRef
             IN  IF PreloadStarts(s5, 0, Closure(r))
                 THEN preloadGeminiChunk(s5, 0, sid, Closure(r), "start", newChunks)
                 ELSE AfterStartPreload(s5, sid, newChunks, Closure(r))
        ELSE playSequence([s4 EXCEPT !.status = "READY_TO_PLAY"], 0, newChunks,
                          Closure(r))

(***************************************************************************)
(* handleJumpToChunk, handlePause, handleResume, handleReset and the other *)
(* handlers that reset the session                                         *)
(***************************************************************************)
\* handleJumpToChunk without line 331
handleJumpToChunkKeepsSession(s, r, index) ==
    IF r.status = "PARSING_PDF" THEN s
    ELSE
    LET s1 == IF r.ttsEngine = "gemini" THEN unlockAudioContext(s) ELSE s
        s2 == [s1 EXCEPT !.isPlayingRef = FALSE, !.isPlaying = FALSE]
        s4 == SpeechCancel(CancelFrame(StopSource(CtxSuspendIfRunning(s2))))
        split == Len(r.chunks) = 0 /\ Trim(r.extractedText) # ""
        currentChunks == IF split
                         THEN SegmentsOf(r.extractedText, ChunkSizeOf(r.ttsEngine))
                         ELSE r.chunks
        s5 == IF split THEN [s4 EXCEPT !.chunks = currentChunks] ELSE s4
    IN  IF Len(currentChunks) = 0 THEN s5
        ELSE LET s6 == [s5 EXCEPT !.pausedTimeRef = 0,
                                  !.chunkProgressIndex = -1,
                                  !.timeLeft =
                                      IF r.timeLeft = 0 /\ r.timerDuration > 0
                                      THEN FullTimer(r.timerDuration) ELSE @,
                                  !.status = "READY_TO_PLAY"]
             IN  playSequence(s6, index, currentChunks, Closure(r))

handleJumpToChunk(s, r, index) ==
    IF r.status = "PARSING_PDF" THEN s
    ELSE
    LET s1 == IF r.ttsEngine = "gemini" THEN unlockAudioContext(s) ELSE s
        s2 == [s1 EXCEPT !.isPlayingRef = FALSE, !.isPlaying = FALSE]
        s3 == SpeechCancel(CancelFrame(StopSource(CtxSuspendIfRunning(s2))))
        s4 == [s3 EXCEPT !.sessionIdRef = @ + 1]
        split == Len(r.chunks) = 0 /\ Trim(r.extractedText) # ""
        currentChunks == IF split
                         THEN SegmentsOf(r.extractedText, ChunkSizeOf(r.ttsEngine))
                         ELSE r.chunks
        s5 == IF split THEN [s4 EXCEPT !.chunks = currentChunks] ELSE s4
    IN  IF Len(currentChunks) = 0 THEN s5
        ELSE LET s6 == [s5 EXCEPT !.pausedTimeRef = 0,
                                  !.chunkProgressIndex = -1,
                                  !.timeLeft =
                                      IF r.timeLeft = 0 /\ r.timerDuration > 0
                                      THEN FullTimer(r.timerDuration) ELSE @,
                                  !.status = "READY_TO_PLAY"]
             IN  playSequence(s6, index, currentChunks, Closure(r))

\* handlePause that also drops the clips of the cache
handlePauseClearing(s, r) ==
    LET s1 == CancelFrame([s EXCEPT !.isPlayingRef = FALSE, !.isPlaying = FALSE,
                                    !.status = "READY_TO_PLAY",
                                    !.audioCacheRef = {}])
    IN  IF r.ttsEngine = "browser" THEN SpeechCancel(s1)
        ELSE LET s2 == CtxSuspendIfRunning(s1) IN
             IF s2.sourceNodeRef # NoSource
             THEN LET s3 == StopNode(s2) IN
                  IF s3.audioContext # "null"
                  THEN [s3 EXCEPT !.pausedTimeRef =
                           @ + (s3.currentTime - s3.startTimeRef)
                                   * r.playbackRate]
                  ELSE s3
             ELSE s2

handlePause(s, r) ==
    LET s1 == CancelFrame([s EXCEPT !.isPlayingRef = FALSE, !.isPlaying = FALSE,
                                    !.status = "READY_TO_PLAY"])
    IN  IF r.ttsEngine = "browser" THEN SpeechCancel(s1)
        ELSE LET s2 == CtxSuspendIfRunning(s1) IN
             IF s2.sourceNodeRef # NoSource
             THEN LET s3 == StopNode(s2) IN
                  IF s3.audioContext # "null"
                  THEN [s3 EXCEPT !.pausedTimeRef =
                           @ + (s3.currentTime - s3.startTimeRef)
                                   * r.playbackRate]
                  ELSE s3
             ELSE s2

handleResume(s, r, confirm) ==
    LET expired == r.timerDuration > 0 /\ r.timeLeft # NULL /\ r.timeLeft <= 0 IN
    IF expired /\ ~confirm THEN s
    ELSE LET s1 == IF expired
                   THEN [s EXCEPT !.timeLeft = FullTimer(r.timerDuration)] ELSE s
             s2 == IF r.ttsEngine = "gemini" THEN unlockAudioContext(s1) ELSE s1
         IN  playSequence(s2, r.currentChunkIndex, r.chunks, Closure(r))

handleReset(s, r) ==
    LET s1 == resetAudioState(s, r) IN
    [s1 EXCEPT !.extractedText = "", !.chunks = <<>>, !.status = "IDLE",
               !.errorMsg = "null",
               !.timeLeft = IF r.timerDuration > 0
                            THEN FullTimer(r.timerDuration) ELSE @]

handleTextSubmit(s, r, text) ==
    [resetAudioState(s, r) EXCEPT !.extractedText = text, !.status = "IDLE",
                                  !.errorMsg = "null"]

handleEngineChange(s, r, engine) ==
    [resetAudioState(s, r) EXCEPT
        !.ttsEngine = engine,
        !.selectedVoice = IF engine = "gemini" THEN "Kore" ELSE BrowserVoice,
        !.status = "IDLE"]

handleVoiceChange(s, r, voice) ==
    LET s1 == [s EXCEPT !.selectedVoice = voice] IN
    IF r.status = "READY_TO_PLAY" \/ r.status = "PLAYING"
    THEN [resetAudioState(s1, r) EXCEPT !.status = "IDLE"]
    ELSE s1

\* setPlaybackRate and the effect of lines 135-139
handlePlaybackRateChange(s, rate) ==
    LET s1   == [s EXCEPT !.playbackRate = rate]
        node == s.sourceNodeRef
    IN  IF node = NoSource THEN s1
        ELSE LET tuned == [node EXCEPT !.rate = rate] IN
             [s1 EXCEPT !.sourceNodeRef = tuned,
                        !.sources = IF BagIn(node, @)
                                    THEN (@ (-) One(node)) (+) One(tuned)
                                    ELSE @]

handleTimerChange(s, minutes) ==
    [s EXCEPT !.timerDuration = minutes,
              !.timeLeft = IF minutes > 0 THEN FullTimer(minutes) ELSE NULL]

(***************************************************************************)
(* Continuations run by platform events.                                   *)
(***************************************************************************)
\* The AudioBuffer decoded from the answer to request f.
ClipOf(f) ==
    [index |-> f.index, voice |-> f.r.selectedVoice, sid |-> f.sid]

\* Map.set: the entry of the index is replaced.  An entry records, beside
\* its clip, how many times it has been set since the cache was cleared.
Writes(s, index) ==
    IF \E c \in s.audioCacheRef : c.index = index
    THEN (CHOOSE c \in s.audioCacheRef : c.index = index).writes
    ELSE 0

CacheSet(s, clip) ==
    [s EXCEPT !.audioCacheRef =
        {c \in @ : c.index # clip.index}
            \cup {[index |-> clip.index, voice |-> clip.voice, sid |-> clip.sid,
                   writes |-> Writes(s, clip.index) + 1]}]

\* preloadGeminiChunk without the test of line 296
SettlePreloadUnchecked(s, f, outcome) ==
    LET s0 == [s EXCEPT !.fetches = @ (-) One(f)]
        s1 == IF outcome = "ok"
              THEN CacheSet(NewContext(s0), ClipOf(f))
              ELSE s0
    IN  [s1 EXCEPT !.fetchingSetRef = @ \ {f.index}]

\* preloadGeminiChunk with a finally block that leaves the in-flight set
\* alone once the generation has changed
SettlePreloadLeavesStaleMark(s, f, outcome) ==
    LET s0 == [s EXCEPT !.fetches = @ (-) One(f)]
        s1 == IF outcome = "ok" /\ f.sid = s0.sessionIdRef
              THEN CacheSet(NewContext(s0), ClipOf(f))
              ELSE s0
    IN  IF f.sid = s0.sessionIdRef
        THEN [s1 EXCEPT !.fetchingSetRef = @ \ {f.index}]
        ELSE s1

\* preloadGeminiChunk whose finally block runs only after a success
SettlePreloadKeepsFailedMark(s, f, outcome) ==
    LET s0 == [s EXCEPT !.fetches = @ (-) One(f)]
        s1 == IF outcome = "ok" /\ f.sid = s0.sessionIdRef
              THEN CacheSet(NewContext(s0), ClipOf(f))
              ELSE s0
    IN  IF outcome = "ok"
        THEN [s1 EXCEPT !.fetchingSetRef = @ \ {f.index}]
        ELSE s1

\* decodeBase64 (src/utils/audioUtils.ts:3-13) of a payload: atob throws on
\* a string that is not base64, and otherwise the bytes are returned
decodeBase64(payload) ==
    IF payload.valid THEN [fault |-> FALSE, byteLength |-> payload.byteLength]
    ELSE [fault |-> TRUE, byteLength |-> 0]

\* decodeAudioData without the trimming of an odd last byte: the Int16Array
\* of a length that is no integer is a RangeError
decodeAudioDataUntrimmed(byteLength, numChannels) ==
    LET frameCount == (byteLength \div 2) \div numChannels
    IN  [frameCount |-> frameCount,
         fault |-> byteLength % 2 # 0 \/ frameCount = 0]

\* decodeAudioData (src/utils/audioUtils.ts:16-44) of byteLength bytes: the
\* frames of the AudioBuffer; createBuffer throws for a buffer of no frame
decodeAudioData(byteLength, numChannels) ==
    LET safeLength == IF byteLength % 2 # 0 THEN byteLength - 1
                      ELSE byteLength
        int16Length == safeLength \div 2
        frameCount  == int16Length \div numChannels
    IN  [frameCount |-> frameCount, fault |-> frameCount = 0]

\* lines 303-304: the two decoding steps of a fill
Decoded(payload) ==
    LET audioBytes == decodeBase64(payload) IN
    IF audioBytes.fault THEN [frameCount |-> 0, fault |-> TRUE]
    ELSE decodeAudioData(audioBytes.byteLength, NumChannels)

\* preloadGeminiChunk lines 294-311 for a request answered with payload:
\* a fault of the decoding is caught at line 308
SettleDecoded(s, f, payload) ==
    LET s0 == [s EXCEPT !.fetches = @ (-) One(f)]
        s1 == IF f.sid # s0.sessionIdRef THEN s0
              ELSE IF Decoded(payload).fault THEN NewContext(s0)
              ELSE CacheSet(NewContext(s0), ClipOf(f))
    IN  [s1 EXCEPT !.fetchingSetRef = @ \ {f.index}]

\* preloadGeminiChunk lines 294-311, from the settled request to the end
SettlePreload(s, f, outcome) ==
    LET s0 == [s EXCEPT !.fetches = @ (-) One(f)]
        s1 == IF outcome = "ok" /\ f.sid = s0.sessionIdRef
              THEN CacheSet(NewContext(s0), ClipOf(f))
              ELSE s0
    IN  [s1 EXCEPT !.fetchingSetRef = @ \ {f.index}]

AfterSettle(s, f) ==
    IF f.waiter = "start" THEN AfterStartPreload(s, f.sid, f.cc, f.r)
    ELSE IF f.waiter = "play" THEN AfterPreload(s, f.index, f.sid, f.cc, f.r)
    ELSE s

\* lines 504-508: the setTimeout callback
LookAhead(s, t) ==
    LET s0 == [s EXCEPT !.timeouts = @ \ {t}] IN
    IF s0.isPlayingRef /\ s0.sessionIdRef = t.sid
    THEN preloadGeminiChunk(s0, t.index, t.sid, t.r, "none", <<>>)
    ELSE s0

RECURSIVE RunWaiters(_, _)
RunWaiters(s, ws) ==
    IF ws = <<>> THEN s
    ELSE LET w == Head(ws) IN
         RunWaiters(AfterResume(s, w.index, w.sid, w.cc, w.r), Tail(ws))

\* source.onended without the test of the play intent (line 557)
onendedWhateverIntent(s, x) ==
    LET s0 == CancelFrame([s EXCEPT !.sources = @ (-) One(x)]) IN
    IF s0.sessionIdRef = x.sid
    THEN playSequence([s0 EXCEPT !.pausedTimeRef = 0,
                                 !.chunkProgressIndex = -1],
                      x.index + 1, x.cc, x.r)
    ELSE s0

\* lines 554-562: source.onended
onended(s, x) ==
    LET s0 == CancelFrame([s EXCEPT !.sources = @ (-) One(x)]) IN
    IF s0.isPlayingRef /\ s0.sessionIdRef = x.sid
    THEN playSequence([s0 EXCEPT !.pausedTimeRef = 0,
                                 !.chunkProgressIndex = -1],
                      x.index + 1, x.cc, x.r)
    ELSE s0

\* lines 445-450: utterance.onend
onend(s, u) ==
    IF s.isPlayingRef /\ s.sessionIdRef = u.sid
    THEN playSequence([s EXCEPT !.chunkProgressIndex = -1],
                      u.index + 1, u.cc, u.r)
    ELSE s

\* lines 452-459: utterance.onerror
onerror(s, cause) ==
    IF cause = "interrupted" \/ cause = "canceled" THEN s
    ELSE [s EXCEPT !.isPlaying = FALSE, !.isPlayingRef = FALSE]

\* animateProgress without the offset the clip was started at
animateProgressFromZero(s, fr) ==
    IF \/ ~s.isPlayingRef \/ s.sessionIdRef # fr.sid
       \/ s.sourceNodeRef = NoSource \/ s.audioContext = "null"
    THEN [s EXCEPT !.animationFrame = NoFrame]
    ELSE LET elapsedRealTime  == s.currentTime - s.startTimeRef
             elapsedAudioTime == elapsedRealTime * fr.rate
         IN  IF elapsedAudioTime >= fr.bufferDuration
             THEN [s EXCEPT !.chunkProgressIndex = fr.chunkTextLength,
                            !.animationFrame = NoFrame]
             ELSE [s EXCEPT !.chunkProgressIndex =
                       (elapsedAudioTime * fr.chunkTextLength)
                           \div fr.bufferDuration]

\* lines 526-548: animateProgress, the requestAnimationFrame callback fr
animateProgress(s, fr) ==
    IF \/ ~s.isPlayingRef \/ s.sessionIdRef # fr.sid
       \/ s.sourceNodeRef = NoSource \/ s.audioContext = "null"
    THEN [s EXCEPT !.animationFrame = NoFrame]
    ELSE LET elapsedRealTime  == s.currentTime - s.startTimeRef
             elapsedAudioTime == elapsedRealTime * fr.rate + fr.offset
         IN  IF elapsedAudioTime >= fr.bufferDuration
             THEN [s EXCEPT !.chunkProgressIndex = fr.chunkTextLength,
                            !.animationFrame = NoFrame]
             ELSE [s EXCEPT !.chunkProgressIndex =
                       (elapsedAudioTime * fr.chunkTextLength)
                           \div fr.bufferDuration]

\* lines 438-443: utterance.onboundary
onboundary(s, charIndex) == [s EXCEPT !.chunkProgressIndex = charIndex]

(***************************************************************************)
(* Actions.  A user action is enabled where the interface offers it.       *)
(***************************************************************************)
WithinBounds(s) ==
    /\ s.sessionIdRef <= budget.session
    /\ BagCardinality(s.fetches) <= budget.fetches
    /\ Cardinality(s.timeouts) <= MaxTimeouts
    /\ BagCardinality(s.sources) <= budget.sources
    /\ Len(s.utterances) + Cardinality(s.cancelled) <= MaxQueued
    /\ Len(s.resumeWaiters) <= MaxQueued
    /\ s.currentTime <= MaxTime
    /\ s.pausedTimeRef <= MaxTime * 2 * DefaultRate

\* A timeout that can no longer pass its tests, and a cancelled utterance
\* whose final event can no longer be accepted, have no effect whenever they
\* run (the generation never decreases, the cache only grows within a
\* generation); they are not kept.
DeadTimeout(s, t) ==
    \/ t.sid # s.sessionIdRef
    \/ ~(t.index < Len(t.r.chunks))
    \/ t.r.timeUp
    \/ CacheHas(s, t.index)

Settled(s) ==
    [s EXCEPT !.timeouts = {t \in @ : ~DeadTimeout(s, t)},
              !.cancelled = {u \in @ : u.sid = s.sessionIdRef}]

\* The history of a step of a control that opens a generation: a jump made
\* while handleStartProcess awaits its first clip is recorded with the
\* segment jumped to; any other opening clears the record.
StartAwaits ==
    \E f \in BagToSet(fetches) : f.sid = sessionIdRef /\ f.waiter = "start"

Overtaking(s, index) ==
    [s EXCEPT !.overtook = IF StartAwaits THEN index ELSE NULL]

Opened(s) ==
    IF s.sessionIdRef = sessionIdRef THEN s ELSE [s EXCEPT !.overtook = NULL]

\* The history of an unattended run.  A start or a jump that opens a
\* generation on a document with segments begins one; any other control, a
\* failed request and the sleep timer end it; every playback begun in the
\* generation is counted.
NoRun == [by |-> "none", index |-> 0, begun |-> 0]

Attended(s) == [s EXCEPT !.run = NoRun]

Plays(s) ==
    LET begun == {x \in BagToSet(s.sources) :
                     /\ ~x.stopped /\ x.sid = s.sessionIdRef
                     /\ CopiesIn(x, s.sources) > CopiesIn(x, sources)}
        clips == BagCardinality([x \in begun |->
                     CopiesIn(x, s.sources) - CopiesIn(x, sources)])
        said  == IF s.utterances # utterances
                    /\ Len(s.utterances) >= Len(utterances) THEN 1 ELSE 0
    IN  clips + said

Counted(s) ==
    IF s.run.by = "none" THEN s
    ELSE LET n == s.run.begun + Plays(s) IN
         [s EXCEPT !.run.begun = IF n > NumSegments THEN NumSegments + 1 ELSE n]

Unattended(s, by, index) ==
    IF s.sessionIdRef # sessionIdRef /\ Len(s.chunks) > 0
    THEN [s EXCEPT !.run = [by |-> by, index |-> index, begun |-> 0]]
    ELSE Attended(s)

\* The place the audio has reached in the clip of sourceNodeRef.  A node
\* started for the segment and generation of the node before continues the
\* playback of that segment; any other node begins one, and fromZero records
\* whether it began at offset 0.  paused records that the node was stopped
\* while it played and that none has been started since.
NoPosition == [index |-> -1]

Stopped(node) == [node EXCEPT !.stopped = TRUE]

Placed(s) ==
    LET node == s.sourceNodeRef IN
    IF node = NoSource THEN [s EXCEPT !.position = NoPosition]
    ELSE IF ~node.stopped /\ CopiesIn(node, s.sources) > CopiesIn(node, sources)
    THEN [s EXCEPT !.position =
             [index |-> node.index, sid |-> node.sid, at |-> node.offset,
              paused |-> FALSE,
              fromZero |-> IF /\ position # NoPosition
                              /\ position.index = node.index
                              /\ position.sid = node.sid
                           THEN position.fromZero
                           ELSE node.offset = 0]]
    ELSE IF /\ s.position # NoPosition /\ node = sourceNodeRef
            /\ CopiesIn(node, s.sources) < CopiesIn(node, sources)
            /\ CopiesIn(Stopped(node), s.sources)
                   > CopiesIn(Stopped(node), sources)
    THEN [s EXCEPT !.position.paused = TRUE]
    ELSE s

Do(s) == WithinBounds(Settled(s)) /\ Commit(Placed(Counted(Settled(s))))

TextSubmit ==
    /\ extractedText = ""
    /\ Do(Attended(Opened(handleTextSubmit(State, Render, "doc"))))

EditText ==
    \E text \in Texts :
        /\ extractedText # ""
        /\ text # extractedText
        /\ Do(Attended([State EXCEPT !.extractedText = text]))

Start ==
    /\ status = "IDLE"
    /\ extractedText # ""
    /\ Do(Unattended(Opened(handleStartProcess(State, Render)), "start", 0))

Jump ==
    \E index \in 0..(Len(chunks) - 1) :
        Do(Unattended(Overtaking(handleJumpToChunk(State, Render, index),
                                 index),
                      "jump", index))

Pause ==
    /\ status # "IDLE"
    /\ isPlaying
    /\ Do(Attended(handlePause(State, Render)))

Resume ==
    \E confirm \in BOOLEAN :
        /\ status # "IDLE"
        /\ ~isPlaying
        /\ ~(status = "GENERATING_AUDIO" /\ ttsEngine = "gemini")
        /\ confirm \/ (timerDuration > 0 /\ timeLeft # NULL /\ timeLeft <= 0)
        /\ Do(Attended(handleResume(State, Render, confirm)))

Reset ==
    /\ status # "IDLE"
    /\ Do(Attended(Opened(handleReset(State, Render))))

EngineChange ==
    \E engine \in Engines :
        /\ ~isPlaying
        /\ Do(Attended(Opened(handleEngineChange(State, Render, engine))))

VoiceChange ==
    \E voice \in Voices :
        /\ ttsEngine = "gemini"
        /\ voice # selectedVoice
        /\ Do(Attended(Opened(handleVoiceChange(State, Render, voice))))

PlaybackRateChange ==
    \E rate \in Rates :
        /\ rate # playbackRate
        /\ Do(Attended(handlePlaybackRateChange(State, rate)))

TimerChange ==
    \E minutes \in TimerOptions :
        /\ ~isPlaying
        /\ minutes # timerDuration
        /\ Do(Attended(handleTimerChange(State, minutes)))

\* the sleep timer ending the session with resetAudioState where lines
\* 152-153 call handlePause
TimerTickResets ==
    /\ isPlaying /\ timeLeft # NULL /\ timeLeft > 0
    /\ IF timeLeft <= 1
       THEN Do(Attended([resetAudioState(State, Render) EXCEPT
                            !.timeLeft = 0, !.status = "IDLE"]))
       ELSE Do([State EXCEPT !.timeLeft = 1])

\* lines 147-161.  While more than one second is left the callbacks only
\* count down and no condition of the program tells the values above 1
\* apart, so the seconds down to the last one pass in one step.
TimerTick ==
    /\ isPlaying /\ timeLeft # NULL /\ timeLeft > 0
    /\ IF timeLeft <= 1
       THEN Do(Attended([handlePause(State, Render) EXCEPT !.timeLeft = 0]))
       ELSE Do([State EXCEPT !.timeLeft = 1])

\* One second passes on the running audio context: currentTime advances,
\* and a node that plays moves on in its clip at its rate.
ClockTick ==
    /\ audioContext = "running"
    /\ LET s1 == [State EXCEPT !.currentTime = @ + 1] IN
       IF /\ position # NoPosition
          /\ BagIn(sourceNodeRef, sources) /\ ~sourceNodeRef.stopped
       THEN Do([s1 EXCEPT !.position.at = @ + sourceNodeRef.rate])
       ELSE Do(s1)

\* the animation frame requested last comes due
FrameFires ==
    /\ animationFrame # NoFrame
    /\ Do(animateProgress(State, animationFrame))

FetchSettles ==
    \E f \in BagToSet(fetches), outcome \in {"ok", "fail"} :
        LET s == AfterSettle(SettlePreload(State, f, outcome), f) IN
        IF outcome = "ok" THEN Do(s) ELSE Do(Attended(s))

\* a request is answered with a payload, which the fill decodes
FetchDecodes ==
    \E f \in BagToSet(fetches), payload \in Payloads :
        LET s0 == AfterSettle(SettleDecoded(State, f, payload), f)
            s  == IF Decoded(payload).fault THEN Attended(s0) ELSE s0
        IN  /\ WithinBounds(Settled(s))
            /\ CommitSession(Placed(Counted(Settled(s))))
            /\ call' = [payload |-> payload, index |-> f.index,
                        current |-> f.sid = sessionIdRef,
                        decoded |-> Decoded(payload)]

TimeoutFires ==
    \E t \in timeouts : Do(LookAhead(State, t))

ContextStarts ==
    /\ audioContext = "resuming"
    /\ Do(RunWaiters([State EXCEPT !.audioContext = "running",
                                   !.resumeWaiters = <<>>],
                     resumeWaiters))

SourceEnds ==
    \E x \in BagToSet(sources) :
        /\ x.stopped \/ audioContext = "running"
        /\ Do(onended(State, x))

UtteranceEnds ==
    /\ utterances # <<>>
    /\ Do(onend([State EXCEPT !.utterances = Tail(@)], Head(utterances)))

UtteranceFails ==
    /\ utterances # <<>>
    /\ Do(Attended(onerror([State EXCEPT !.utterances = Tail(@)],
                            "synthesis-failed")))

UtteranceBoundary ==
    /\ utterances # <<>>
    /\ Do(onboundary(State, 1))

\* the final event of a cancelled utterance: 'end', or 'error' with a
\* cancellation cause, as the platform chooses
CancelledReports ==
    \E u \in cancelled, event \in {"end", "interrupted", "canceled"} :
        LET s0 == [State EXCEPT !.cancelled = @ \ {u}] IN
        IF event = "end" THEN Do(onend(s0, u)) ELSE Do(onerror(s0, event))

(***************************************************************************)
(* Specifications.  The program is the same in each; they differ in the    *)
(* controls the listener uses.                                             *)
(***************************************************************************)
\* Listening with the default engine: submit, start, jump, pause, resume,
\* reset.
Next ==
    \/ TextSubmit
    \/ Start
    \/ Jump
    \/ Pause
    \/ Resume
    \/ Reset
    \/ FetchSettles
    \/ TimeoutFires
    \/ ContextStarts
    \/ SourceEnds

Spec == Init /\ [][Next]_vars

\* Changing the voice instead of pausing.
NextVoice ==
    \/ TextSubmit
    \/ Start
    \/ Jump
    \/ VoiceChange
    \/ Reset
    \/ FetchSettles
    \/ TimeoutFires
    \/ ContextStarts
    \/ SourceEnds

SpecVoice == Init /\ [][NextVoice]_vars

\* Editing the text in the preview between readings.
NextEdit ==
    \/ TextSubmit
    \/ EditText
    \/ Start
    \/ FetchSettles
    \/ TimeoutFires
    \/ ContextStarts
    \/ SourceEnds

SpecEdit == Init /\ [][NextEdit]_vars

\* Pausing and resuming with the audio clock running, at a rate chosen
\* before the reading starts.
NextClock ==
    \/ TextSubmit
    \/ Start
    \/ Pause
    \/ Resume
    \/ status = "IDLE" /\ PlaybackRateChange
    \/ ClockTick
    \/ FetchSettles
    \/ TimeoutFires
    \/ ContextStarts
    \/ SourceEnds

SpecClock == InitClock /\ [][NextClock]_vars

\* The same with the highlight estimator running and the rate changed at
\* any time.
InitFrame ==
    /\ Boot
    /\ budget = [session |-> MaxSessionClock, fetches |-> MaxFetchesAll,
                 sources |-> MaxSourcesAll]
    /\ call = NoCall

NextFrame ==
    \/ TextSubmit
    \/ Start
    \/ Pause
    \/ Resume
    \/ PlaybackRateChange
    \/ ClockTick
    \/ FrameFires
    \/ FetchSettles
    \/ TimeoutFires
    \/ ContextStarts
    \/ SourceEnds

SpecFrame == InitFrame /\ [][NextFrame]_vars

\* The fills with the payloads they decode.
InitDecode ==
    /\ Boot
    /\ budget = [session |-> MaxSessionClock, fetches |-> MaxFetchesAll,
                 sources |-> MaxSourcesAll]
    /\ call = NoCall

NextDecode ==
    \/ TextSubmit
    \/ Start
    \/ Jump
    \/ FetchDecodes
    \/ FetchSettles
    \/ TimeoutFires
    \/ ContextStarts
    \/ SourceEnds

SpecDecode == InitDecode /\ [][NextDecode]_vars

\* Every control that opens a generation, both engines, the sleep timer
\* running.
NextAll ==
    \/ TextSubmit
    \/ Start
    \/ Jump
    \/ Pause
    \/ Resume
    \/ Reset
    \/ EngineChange
    \/ VoiceChange
    \/ TimerTick
    \/ FetchSettles
    \/ TimeoutFires
    \/ ContextStarts
    \/ SourceEnds
    \/ UtteranceEnds
    \/ UtteranceFails
    \/ UtteranceBoundary
    \/ CancelledReports

SpecAll == InitAll /\ [][NextAll]_vars

\* Calls of splitTextIntoChunks: every text of at most MaxLen characters
\* over a letter, a full stop, a space and a line feed, with every maxChars
\* from 0 to MaxChars; and the text of the documented example with
\* maxChars 15.
Alphabet == {"a", ".", " ", "\n"}

ShortTexts == UNION {[1..n -> Alphabet] : n \in 0..MaxLen}

ExampleText ==
    << "F", "i", "r", "s", "t", " ", "s", "e", "n", "t", "e", "n",
       "c", "e", ".", " ", "S", "e", "c", "o", "n", "d", " ", "o",
       "n", "e", ".", " ", "T", "h", "i", "r", "d", "." >>

Calls ==
    {[NoCall EXCEPT !.text = str, !.maxChars = m] :
        str \in ShortTexts, m \in 0..MaxChars}
    \cup {[NoCall EXCEPT !.text = ExampleText, !.maxChars = 15]}

InitSplit ==
    /\ Boot
    /\ budget = [session |-> MaxSession, fetches |-> MaxFetches,
                 sources |-> MaxSources]
    /\ call \in Calls

Returns ==
    /\ ~call.returned
    /\ LET parts == Chunked(call.text, call.maxChars) IN
       call' = [call EXCEPT !.returned = TRUE,
                            !.chunks = splitTextIntoChunks(call.text,
                                                           call.maxChars),
                            !.starts = [k \in 1..Len(parts) |-> parts[k].first]]
    /\ UNCHANGED << extractedText, status, errorMsg, ttsEngine, selectedVoice,
                    timerDuration, timeLeft, chunks, currentChunkIndex,
                    chunkProgressIndex, isPlaying, playbackRate, audioContext,
                    sourceNodeRef, audioCacheRef, fetchingSetRef,
                    pausedTimeRef, startTimeRef, isPlayingRef, animationFrame,
                    sessionIdRef, fetches, timeouts, resumeWaiters, sources,
                    utterances, cancelled, currentTime, overtook, position,
                    run, budget >>

NextSplit == Returns

SpecSplit == InitSplit /\ [][NextSplit]_vars

(***************************************************************************)
(* generateSpeechFromText (src/services/geminiService.ts:12-70).  The      *)
(* call is a record: its text, where it stands, the attempt of the loop,   *)
(* the requests made, the delays slept, the answer to the last request,    *)
(* the error of each failed attempt, and what it returned or threw.        *)
(***************************************************************************)
SpeechTexts == UNION {[1..n -> {"a", " "}] : n \in 0..MaxTextLen}

\* a part of response.candidates[0].content.parts
Parts ==
    {[kind |-> "audio", data |-> d] : d \in 1..2}
        \cup {[kind |-> "text", data |-> 0], [kind |-> "other", data |-> 0]}

\* what ai.models.generateContent settles with: a rejection, a response
\* without candidate parts, or a response with parts
Responses ==
    {[rejected |-> TRUE, hasParts |-> FALSE, parts |-> <<>>],
     [rejected |-> FALSE, hasParts |-> FALSE, parts |-> <<>>]}
        \cup {[rejected |-> FALSE, hasParts |-> TRUE, parts |-> ps] :
                 ps \in UNION {[1..n -> Parts] : n \in 0..MaxParts}}

NoResponse == [rejected |-> FALSE, hasParts |-> FALSE, parts |-> <<>>]

NewSpeechCall(str) ==
    [text |-> str, phase |-> "called", attempt |-> 0, requests |-> 0,
     delays |-> <<>>, response |-> NoResponse, errors |-> <<>>,
     result |-> 0, lastError |-> "none"]

\* lines 39-53: the body of the try after the await; what it returns or
\* throws
RECURSIVE FirstOfKind(_, _)
FirstOfKind(ps, kind) ==
    IF ps = <<>> THEN [found |-> FALSE, data |-> 0]
    ELSE IF Head(ps).kind = kind THEN [found |-> TRUE, data |-> Head(ps).data]
    ELSE FirstOfKind(Tail(ps), kind)

Outcome(response) ==
    IF response.rejected THEN [error |-> "rejected", data |-> 0]
    ELSE IF ~response.hasParts THEN [error |-> "empty", data |-> 0]
    ELSE IF FirstOfKind(response.parts, "audio").found
    THEN [error |-> "none",
          data |-> FirstOfKind(response.parts, "audio").data]
    ELSE IF FirstOfKind(response.parts, "text").found
    THEN [error |-> "cannot read", data |-> 0]
    ELSE [error |-> "empty", data |-> 0]

\* lines 12-22: the call up to its first request
Called(c) ==
    IF TrimSeq(c.text) = <<>>
    THEN [c EXCEPT !.phase = "thrown", !.lastError = "no text"]
    ELSE [c EXCEPT !.phase = "requesting", !.requests = @ + 1]

\* Attempted that retries a passage the model cannot read
AttemptedRetriesFatal(c, response) ==
    LET o  == Outcome(response)
        c1 == [c EXCEPT !.response = response]
    IN  IF o.error = "none"
        THEN [c1 EXCEPT !.phase = "returned", !.result = o.data]
        ELSE LET c2 == [c1 EXCEPT !.errors = Append(@, o.error)] IN
             IF c.attempt = Retries - 1
             THEN [c2 EXCEPT !.phase = "thrown", !.lastError = o.error]
             ELSE [c2 EXCEPT !.phase = "waiting",
                             !.delays = Append(@, BackoffMs * 2 ^ c.attempt)]

\* lines 22-66: the request of this attempt settles with response
Attempted(c, response) ==
    LET o  == Outcome(response)
        c1 == [c EXCEPT !.response = response]
    IN  IF o.error = "none"
        THEN [c1 EXCEPT !.phase = "returned", !.result = o.data]
        ELSE LET c2 == [c1 EXCEPT !.errors = Append(@, o.error)]
                 isFatal == o.error = "cannot read"
             IN  IF isFatal \/ c.attempt = Retries - 1
                 THEN [c2 EXCEPT !.phase = "thrown", !.lastError = o.error]
                 ELSE [c2 EXCEPT !.phase = "waiting",
                                 !.delays = Append(@, BackoffMs * 2 ^ c.attempt)]

\* lines 21-22, 65: the delay is over, the loop makes its next request
Retried(c) ==
    [c EXCEPT !.phase = "requesting", !.attempt = @ + 1, !.requests = @ + 1]

SessionUntouched ==
    UNCHANGED << extractedText, status, errorMsg, ttsEngine, selectedVoice,
                 timerDuration, timeLeft, chunks, currentChunkIndex,
                 chunkProgressIndex, isPlaying, playbackRate, audioContext,
                 sourceNodeRef, audioCacheRef, fetchingSetRef,
                 pausedTimeRef, startTimeRef, isPlayingRef, animationFrame,
                 sessionIdRef, fetches, timeouts, resumeWaiters, sources,
                 utterances, cancelled, currentTime, overtook, position,
                 run, budget >>

InitSpeech ==
    /\ Boot
    /\ budget = [session |-> MaxSession, fetches |-> MaxFetches,
                 sources |-> MaxSources]
    /\ call \in {NewSpeechCall(str) : str \in SpeechTexts}

SpeechCalled ==
    /\ call.phase = "called"
    /\ call' = Called(call)
    /\ SessionUntouched

RequestSettles ==
    /\ call.phase = "requesting"
    /\ \E response \in Responses : call' = Attempted(call, response)
    /\ SessionUntouched

BackoffEnds ==
    /\ call.phase = "waiting"
    /\ call' = Retried(call)
    /\ SessionUntouched

NextSpeech == SpeechCalled \/ RequestSettles \/ BackoffEnds

\* every request settles and every delay ends
SpecSpeech == InitSpeech /\ [][NextSpeech]_vars /\ WF_vars(NextSpeech)

(***************************************************************************)
(* Properties.  A step is read off the two states it joins.                *)
(***************************************************************************)
\* request f settles in this step
Settles(f) == CopiesIn(f, fetches') < CopiesIn(f, fetches)

\* request f is issued in this step
Issued(f) == CopiesIn(f, fetches') > CopiesIn(f, fetches)

\* the clip source x starts in this step
Begins(x) == ~x.stopped /\ CopiesIn(x, sources') > CopiesIn(x, sources)

\* the 'ended' event of the clip source x is delivered in this step
Ends(x) ==
    /\ CopiesIn(x, sources') < CopiesIn(x, sources)
    /\ \/ x.stopped
       \/ CopiesIn([x EXCEPT !.stopped = TRUE], sources')
              <= CopiesIn([x EXCEPT !.stopped = TRUE], sources)

\* no playback starts in this step
NothingBegins ==
    /\ \A x \in BagToSet(sources') : ~Begins(x)
    /\ Len(utterances') <= Len(utterances)

\* C1: a synthesis request that settles after its generation was superseded
\* (by resetAudioState in particular, whatever was started since) adds no
\* entry to the clip cache, leaves currentChunkIndex alone and starts no
\* playback.
C1_StaleFetchDiscarded ==
    [][\A f \in BagToSet(fetches) :
           (f.sid # sessionIdRef /\ Settles(f)) =>
               /\ audioCacheRef' = audioCacheRef
               /\ currentChunkIndex' = currentChunkIndex
               /\ NothingBegins]_vars

\* A request of the current generation is outstanding without its mark in
\* the in-flight set: the mark was taken away by a request for the same
\* segment that was started before a reset and settled after the restart.
\* Nothing is cached for the segment and the cursor is elsewhere.
C1_Witness ==
    \E g \in BagToSet(fetches) :
        /\ g.sid = sessionIdRef
        /\ g.index \notin fetchingSetRef
        /\ CopiesIn(g, fetches) = 1
        /\ \A h \in BagToSet(fetches) : h.index = g.index => h = g
        /\ ~CacheHas(State, g.index)
        /\ currentChunkIndex # g.index

\* what a superseded continuation may not touch
Guarded ==
    << audioCacheRef, fetchingSetRef, currentChunkIndex, pausedTimeRef,
       isPlayingRef, status, chunkProgressIndex >>

\* the playSequence calls suspended at await resume() continue in this
\* step, and each of them captured a generation that has been superseded
StaleResumes ==
    /\ resumeWaiters # <<>>
    /\ resumeWaiters' = <<>>
    /\ audioContext = "resuming" /\ audioContext' = "running"
    /\ \A i \in 1..Len(resumeWaiters) : resumeWaiters[i].sid # sessionIdRef

\* C2: a continuation that runs after the generation it captured was
\* superseded (a settled request with its finally block and what awaits it,
\* a playSequence resumed after await resume(), an 'ended' handler) leaves
\* the clip cache, the in-flight set, currentChunkIndex, the paused offset,
\* the play intent, the status and the highlight position unchanged.
C2_StaleContinuationsInert ==
    [][(\/ \E f \in BagToSet(fetches) : f.sid # sessionIdRef /\ Settles(f)
        \/ \E x \in BagToSet(sources) : x.sid # sessionIdRef /\ Ends(x)
        \/ StaleResumes)
       => UNCHANGED Guarded]_vars

\* C3: the 'ended' event of a clip source that was stopped (by pause, jump
\* or reset), and the final event of a cancelled utterance, never move
\* currentChunkIndex, whatever happened between the stop and the delivery.
C3_StoppedNeverAdvances ==
    [][(\/ \E x \in BagToSet(sources) : x.stopped /\ Ends(x)
        \/ \E u \in cancelled : u \notin cancelled')
       => currentChunkIndex' = currentChunkIndex]_vars

\* the completion of segment i is observed in this step: the 'ended' event
\* of a clip source, or the 'end' event of an utterance, of segment i and of
\* the current generation is delivered while the play intent is set
Completes(i) ==
    /\ isPlayingRef
    /\ \/ \E x \in BagToSet(sources) :
              Ends(x) /\ x.index = i /\ x.sid = sessionIdRef
       \/ /\ utterances # <<>>
          /\ Head(utterances).index = i /\ Head(utterances).sid = sessionIdRef
          /\ \/ utterances' = Tail(utterances)
             \/ /\ Len(utterances') = Len(utterances)
                /\ utterances' # utterances
       \/ \E u \in cancelled :
              u \notin cancelled' /\ u.index = i /\ u.sid = sessionIdRef

\* segment i of the current generation begins playing in this step
BeginsPlaying(i) ==
    \/ \E x \in BagToSet(sources') :
           Begins(x) /\ x.index = i /\ x.sid = sessionIdRef'
    \/ /\ utterances' # <<>>
       /\ utterances' # utterances
       /\ Len(utterances') >= Len(utterances)
       /\ utterances'[Len(utterances')].index = i
       /\ utterances'[Len(utterances')].sid = sessionIdRef'

\* a playSequence call for segment i of the current generation, suspended
\* at one of its awaits, continues in this step
Continues(i) ==
    \/ /\ audioContext = "resuming" /\ audioContext' = "running"
       /\ \E k \in 1..Len(resumeWaiters) :
              resumeWaiters[k].index = i /\ resumeWaiters[k].sid = sessionIdRef
    \/ \E f \in BagToSet(fetches) :
           Settles(f) /\ f.index = i /\ f.sid = sessionIdRef /\ f.waiter # "none"

Outstanding(b, i, g) ==
    BagCardinality([f \in {h \in BagToSet(b) : h.index = i /\ h.sid = g}
                       |-> CopiesIn(f, b)])

\* C5: a synthesis call is made for a segment only when no other request
\* for that segment is outstanding under the same generation and the
\* segment is not in the cache: concurrent fills of one segment make one
\* call, a fill of a cached segment none.
C5_OneCallPerFill ==
    [][\A f \in BagToSet(fetches') :
           Issued(f) =>
               /\ Outstanding(fetches', f.index, f.sid) = 1
               /\ \A c \in audioCacheRef' : c.index # f.index]_vars

\* C6: for every segment at most one request started under the current
\* generation is outstanding.
C6_OneFetchPerIndex ==
    \A i \in 0..(NumSegments - 1) :
        Outstanding(fetches, i, sessionIdRef) <= 1

\* C7: a segment is marked in the in-flight set only while a request for it
\* is outstanding, and the step in which a request settles leaves its
\* segment unmarked, whether it succeeded, failed or was stale.
C7_MarkedOnlyWhileOutstanding ==
    [][/\ \A i \in fetchingSetRef' :
              \E f \in BagToSet(fetches') : f.index = i
       /\ \A f \in BagToSet(fetches) :
              Settles(f) => f.index \notin fetchingSetRef']_vars

\* A segment was fetched and cached, and a request for another segment was
\* let go as stale by a jump and has settled: nothing is marked and
\* nothing is outstanding.
C7_Witness ==
    /\ fetchingSetRef = {}
    /\ fetches = EmptyBag
    /\ overtook # NULL
    /\ \E c \in audioCacheRef : c.sid = sessionIdRef

\* C8: the clip cache holds one entry for a segment at most, and an entry,
\* once set, is not set again before the cache is cleared.
C8_NeverOverwritten ==
    /\ \A c, d \in audioCacheRef : c.index = d.index => c = d
    /\ \A c \in audioCacheRef : c.writes = 1

\* C9: the generation never decreases; a start, a jump, a reset, a new
\* input, an engine change, and a voice change made while playing or ready
\* to play, add exactly one to it; a pause, a resume, a completion, a timer
\* tick, a settled request and every other platform event leave it as it is.
C9_GenerationSteps ==
    [][/\ sessionIdRef' >= sessionIdRef
       /\ (Start \/ Jump \/ Reset \/ TextSubmit \/ EngineChange)
              => sessionIdRef' = sessionIdRef + 1
       /\ VoiceChange
              => sessionIdRef' = IF status \in {"READY_TO_PLAY", "PLAYING"}
                                 THEN sessionIdRef + 1 ELSE sessionIdRef
       /\ (Pause \/ Resume \/ TimerTick \/ FetchSettles \/ TimeoutFires
             \/ ContextStarts \/ SourceEnds \/ UtteranceEnds \/ UtteranceFails
             \/ UtteranceBoundary \/ CancelledReports)
              => sessionIdRef' = sessionIdRef]_vars

\* The last generation the run may open plays: each of the controls before
\* it opened one generation, and the requests, the context and the clips
\* that followed opened none.
C9_Witness ==
    /\ sessionIdRef = MaxSessionAll
    /\ sources # EmptyBag
    /\ isPlayingRef

\* C10: in the generation opened by a jump to segment 2 made while
\* handleStartProcess awaited segment 0, segment 0 is not in the cache,
\* nothing of the start's generation plays, and no clip but those of
\* segment 2 and after begins playing; the first to play is segment 2.
C10_JumpOvertakesStart ==
    overtook = 2 =>
        /\ ~CacheHas(State, 0)
        /\ \A x \in BagToSet(sources) :
               x.sid >= sessionIdRef - 1 => x.sid = sessionIdRef /\ x.index >= 2
        /\ \A c \in audioCacheRef : c.sid = sessionIdRef /\ c.index >= 2
        /\ currentChunkIndex >= 2 \/ status = "IDLE"
        /\ utterances = <<>>

\* After such a jump the start's request has settled and segment 2 plays.
C10_Witness ==
    /\ overtook = 2
    /\ ~StartAwaits
    /\ \A f \in BagToSet(fetches) : f.waiter # "start"
    /\ \E x \in BagToSet(sources) :
           x.index = 2 /\ x.sid = sessionIdRef /\ ~x.stopped
    /\ ~CacheHas(State, 0)
    /\ currentChunkIndex = 2

\* C11: in the generation a jump to segment k opened on a document with
\* segments, while every request succeeds and no control is used, the
\* session does not enter the error state, and the first segment to begin
\* playing is segment k, from offset 0; so also when a request for segment
\* k made under the generation before is outstanding at the jump.
C11_JumpPlaysTarget ==
    [][run'.by = "jump" =>
          /\ status' # "ERROR"
          /\ (run'.begun >= 1 /\ (sessionIdRef' # sessionIdRef \/ run.begun = 0))
                 => /\ run'.begun = 1
                    /\ BeginsPlaying(run'.index)
                    /\ \A x \in BagToSet(sources') :
                           Begins(x) => x.offset = 0]_vars

\* the session is paused within the segment that sourceNodeRef played from
\* offset 0 (a step that clears the play intent and leads here is a pause)
PausedWithin ==
    /\ ~isPlayingRef /\ status = "READY_TO_PLAY"
    /\ position # NoPosition /\ position.fromZero
    /\ position.index = currentChunkIndex /\ position.sid = sessionIdRef

\* C12: on the clip backend, within a segment played from offset 0 at a
\* constant rate, the offset stored by a pause is the place the audio has
\* reached (the real time played times the rate, summed over the pause and
\* resume cycles so far), and the resume that follows the pause of a
\* playing clip starts the clip at that place.
C12_OffsetFollowsPlayback ==
    [][/\ (isPlayingRef /\ PausedWithin') => pausedTimeRef' = position'.at
       /\ \A x \in BagToSet(sources') :
              (/\ Begins(x) /\ x.sid = sessionIdRef
               /\ position # NoPosition /\ position.fromZero
               /\ position.paused
               /\ x.index = position.index /\ x.sid = position.sid)
              => x.offset = position.at]_vars

\* C13: the step in which the sleep timer reaches zero while the session
\* plays is a pause and not a reset: the play intent is cleared, the status
\* becomes READY_TO_PLAY, the segment at the cursor is neither completed nor
\* left (the cursor, the generation and the clip cache are unchanged, no
\* completion is taken and nothing begins playing).
C13_TimerPauses ==
    [][(timeLeft # NULL /\ timeLeft > 0 /\ timeLeft' = 0) =>
          /\ isPlaying
          /\ ~isPlayingRef' /\ ~isPlaying'
          /\ status' = "READY_TO_PLAY"
          /\ UNCHANGED << sessionIdRef, audioCacheRef, currentChunkIndex,
                          chunks, extractedText >>
          /\ NothingBegins
          /\ \A x \in BagToSet(sources) : ~Ends(x)]_vars

\* The timer has run out on a playing clip: the clip was stopped, its
\* 'ended' event is still to come, and the session waits, ready to play,
\* at the segment it was reading.
C13_Witness ==
    /\ timerDuration > 0 /\ timeLeft = 0
    /\ status = "READY_TO_PLAY" /\ ~isPlayingRef
    /\ \E x \in BagToSet(sources) :
           x.stopped /\ x.index = currentChunkIndex /\ x.sid = sessionIdRef
    /\ \E c \in audioCacheRef : c.index = currentChunkIndex

\* C14: while a sleep timer is set and its time is used up, no clip source
\* and no utterance is started; so also when the request a playSequence
\* call awaits settles after the time ran out.
C14_NothingBeginsAfterTimeUp ==
    [][(timerDuration > 0 /\ timeLeft = 0 /\ timeLeft' = 0) =>
          NothingBegins]_vars

\* this step puts the segment at the cursor on its way to the speaker from
\* the stored offset: its clip or its utterance begins, or a playSequence
\* call for it is left waiting for the audio context or for its clip
PlaysFromCursor ==
    /\ isPlayingRef'
    /\ \/ \E x \in BagToSet(sources') :
              /\ Begins(x) /\ x.index = currentChunkIndex
              /\ x.sid = sessionIdRef /\ x.offset = pausedTimeRef
       \/ /\ Len(utterances') > Len(utterances)
          /\ utterances'[Len(utterances')].index = currentChunkIndex
       \/ /\ Len(resumeWaiters') > Len(resumeWaiters)
          /\ resumeWaiters'[Len(resumeWaiters')].index = currentChunkIndex
       \/ \E f \in BagToSet(fetches') :
              Issued(f) /\ f.index = currentChunkIndex /\ f.waiter = "play"

\* what the program holds of the session, the histories left out
Session ==
    << extractedText, status, errorMsg, ttsEngine, selectedVoice,
       timerDuration, timeLeft, chunks, currentChunkIndex,
       chunkProgressIndex, isPlaying, playbackRate, audioContext,
       sourceNodeRef, audioCacheRef, fetchingSetRef, pausedTimeRef,
       startTimeRef, isPlayingRef, animationFrame, sessionIdRef, fetches,
       timeouts, resumeWaiters, sources, utterances, cancelled >>

\* C15: a resume made with the sleep timer used up either changes nothing
\* and plays nothing (the listener declined) or sets the timer to its full
\* duration and, in the same call, puts the segment at the cursor on its way
\* from the stored offset (the listener confirmed); a resume made with time
\* left does the latter without touching the timer.
C15_ResumeAsksWhenTimeUp ==
    [][Resume =>
          IF timerDuration > 0 /\ timeLeft # NULL /\ timeLeft <= 0
          THEN \/ UNCHANGED Session
               \/ timeLeft' = FullTimer(timerDuration) /\ PlaysFromCursor
          ELSE timeLeft' = timeLeft /\ PlaysFromCursor]_vars

\* a completion signal is let pass: nothing of the reading moves
Ignored ==
    /\ UNCHANGED << currentChunkIndex, status, isPlayingRef, pausedTimeRef,
                    chunkProgressIndex >>
    /\ NothingBegins

\* the completion of segment i of the segments cc is taken: the cursor
\* moves to segment i+1 and that segment is played (its clip or utterance
\* begins, or the playSequence call for it is left waiting for the audio
\* context or for its clip), or, after the last segment, the session is
\* left idle with the cursor, the offset and the highlight cleared
Advanced(i, cc) ==
    IF i + 1 < Len(cc)
    THEN /\ currentChunkIndex' = i + 1
         /\ isPlayingRef'
         /\ \/ BeginsPlaying(i + 1)
            \/ /\ Len(resumeWaiters') > Len(resumeWaiters)
               /\ resumeWaiters'[Len(resumeWaiters')].index = i + 1
            \/ \E f \in BagToSet(fetches') :
                   Issued(f) /\ f.index = i + 1 /\ f.waiter = "play"
    ELSE /\ status' = "IDLE" /\ ~isPlayingRef' /\ ~isPlaying'
         /\ currentChunkIndex' = 0 /\ pausedTimeRef' = 0
         /\ chunkProgressIndex' = -1

\* C16: the 'ended' event of a clip source and the 'end' event of an
\* utterance are acted on only when the generation they captured is the
\* current one and the play intent is set; taken for a segment that is not
\* the last, they move the cursor to the next segment, which is played;
\* taken for the last segment, they leave the session idle with the play
\* intent cleared, the cursor and the paused offset at 0 and no highlight.
C16_CompletionAdvances ==
    [][/\ \A x \in BagToSet(sources) :
              Ends(x) => IF isPlayingRef /\ x.sid = sessionIdRef
                         THEN Advanced(x.index, x.cc) ELSE Ignored
       /\ UtteranceEnds =>
              IF isPlayingRef /\ Head(utterances).sid = sessionIdRef
              THEN Advanced(Head(utterances).index, Head(utterances).cc)
              ELSE Ignored]_vars

\* C17: in the generation a start opened on a document with segments,
\* while every request succeeds, no control is used and the timer does not
\* run out, the session does not enter the error state, the segments begin
\* playing one at a time in the order 0, 1, 2, ..., each once, and the
\* session is idle again only when all of them have begun.
C17_StartReadsAll ==
    [][run'.by = "start" =>
          /\ status' # "ERROR"
          /\ status' = "IDLE" => run'.begun = Len(chunks')
          /\ run'.begun <= Len(chunks')
          /\ \A i \in 0..NumSegments :
                 BeginsPlaying(i) => i = run'.begun - 1]_vars

\* C18: a reset, whatever the state it is made in, leaves no playback
\* active on either backend (no clip source that has not been stopped, no
\* utterance queued), the play intent cleared, the generation one greater,
\* the clip cache and the in-flight set empty, the cursor and the paused
\* offset at 0, no highlight, and the status IDLE.
C18_ResetClearsSession ==
    [][Reset =>
          /\ \A x \in BagToSet(sources') : x.stopped
          /\ sourceNodeRef' = NoSource
          /\ utterances' = <<>>
          /\ ~isPlayingRef' /\ ~isPlaying'
          /\ sessionIdRef' = sessionIdRef + 1
          /\ audioCacheRef' = {} /\ fetchingSetRef' = {}
          /\ currentChunkIndex' = 0 /\ pausedTimeRef' = 0
          /\ chunkProgressIndex' = -1
          /\ status' = "IDLE"]_vars

\* C19: a start on a text that yields no segment (an empty text, or one of
\* white space only) does nothing: the generation, the clip cache, the
\* in-flight set, the cursor, the paused offset, the timer, the play intent
\* and the status are unchanged, no request is made and nothing begins
\* playing.
C19_EmptyStartIsNoOp ==
    [][(Start /\ SegmentsOf(extractedText, ChunkSizeOf(ttsEngine)) = <<>>) =>
          /\ UNCHANGED << sessionIdRef, audioCacheRef, fetchingSetRef,
                          currentChunkIndex, pausedTimeRef, timeLeft,
                          isPlayingRef, status, fetches >>
          /\ NothingBegins]_vars

\* request f of the current generation settles in this step without a clip
\* for its segment: the synthesis failed
Fails(f) ==
    /\ Settles(f) /\ f.sid = sessionIdRef
    /\ \A c \in audioCacheRef' : c.index # f.index

CancelledErrors ==
    \E u \in cancelled, cause \in {"interrupted", "canceled"} :
        Do(onerror([State EXCEPT !.cancelled = @ \ {u}], cause))

\* what the program holds of the session beside the platform's queues
Held ==
    << extractedText, status, errorMsg, ttsEngine, selectedVoice,
       timerDuration, timeLeft, chunks, currentChunkIndex,
       chunkProgressIndex, isPlaying, playbackRate, audioContext,
       sourceNodeRef, audioCacheRef, fetchingSetRef, pausedTimeRef,
       startTimeRef, isPlayingRef, animationFrame, sessionIdRef >>

\* C21: an 'error' event of an utterance whose cause is 'interrupted' or
\* 'canceled' changes nothing of the session; an 'error' event with any
\* other cause clears the play intent and puts the session in the ERROR
\* status.
C21_UtteranceErrorSurfaces ==
    [][/\ CancelledErrors => UNCHANGED Held
       /\ UtteranceFails =>
              /\ ~isPlayingRef' /\ ~isPlaying'
              /\ status' = "ERROR"]_vars


\* request f is the one the session waits for in the GENERATING_AUDIO
\* status: it was made under the current generation for the segment to
\* play, and a call of handleStartProcess or playSequence awaits it
Required(f) ==
    /\ f.sid = sessionIdRef
    /\ \/ f.waiter = "start" /\ f.index = 0
       \/ f.waiter = "play" /\ f.index = currentChunkIndex

\* C22: whenever the status is GENERATING_AUDIO a request for the segment
\* to play, made under the current generation, is outstanding and awaited;
\* and the step in which that request settles takes the session out of
\* GENERATING_AUDIO: to PLAYING or READY_TO_PLAY when the clip was cached,
\* to IDLE or ERROR with a message when it was not.
C22_GeneratingEnds ==
    [][/\ status' = "GENERATING_AUDIO" =>
              \E f \in BagToSet(fetches') : Required(f)'
       /\ \A f \in BagToSet(fetches) :
              (status = "GENERATING_AUDIO" /\ Required(f) /\ Settles(f)) =>
                  IF \E c \in audioCacheRef' : c.index = f.index
                  THEN status' \in {"PLAYING", "READY_TO_PLAY"}
                  ELSE status' \in {"IDLE", "ERROR"} /\ errorMsg' # "null"]_vars

\* the strings of a list joined in order
RECURSIVE Concat(_)
Concat(list) ==
    IF list = <<>> THEN <<>> ELSE Head(list) \o Concat(Tail(list))

NotSpace(c) == ~IsSpace(c)

\* a string with its white space removed
Squeeze(str) == SelectSeq(str, NotSpace)

\* C23: for every text and every maxChars, no chunk splitTextIntoChunks
\* returns is empty after trimming, and the chunks joined in order, white
\* space removed, are the text with its white space removed.
C23_SplitKeepsContent ==
    call.returned =>
        /\ \A k \in 1..Len(call.chunks) : TrimSeq(call.chunks[k]) # <<>>
        /\ Squeeze(Concat(call.chunks)) = Squeeze(call.text)

\* A call returned two chunks or more, and trimming took white space away.
C23_Witness ==
    /\ call.returned
    /\ Len(call.chunks) >= 2
    /\ Len(Concat(call.chunks)) < Len(call.text)
    /\ Squeeze(call.text) # <<>>

\* C24: for maxChars >= 1 and a text that is not empty, every chunk is at
\* most maxChars long, unless it is a single sentence (one element of the
\* split, trimmed) that is itself longer than maxChars.
C24_ChunksWithinLimit ==
    (call.returned /\ call.maxChars >= 1 /\ call.text # <<>>) =>
        \A k \in 1..Len(call.chunks) :
            \/ Len(call.chunks[k]) <= call.maxChars
            \/ \E j \in 1..Len(Sentences(call.text)) :
                   /\ call.chunks[k] = TrimSeq(Sentences(call.text)[j])
                   /\ Len(Sentences(call.text)[j]) > call.maxChars

\* A call returned a chunk longer than maxChars beside a chunk that holds a
\* sentence with its delimiter.
C24_Witness ==
    /\ call.returned /\ call.maxChars >= 1
    /\ \E k \in 1..Len(call.chunks) : Len(call.chunks[k]) > call.maxChars
    /\ \E k \in 1..Len(call.chunks) :
           /\ Len(call.chunks[k]) <= call.maxChars
           /\ \E i, j \in 1..Len(call.chunks[k]) :
                  /\ IsDelimiter(call.chunks[k][i])
                  /\ ~IsDelimiter(call.chunks[k][j])

\* C25: for maxChars >= 1, no chunk after the first begins with a run of
\* delimiters (an even element of the split) whose sentence, the element
\* before it, has text and was put in the chunk before.
C25_DelimiterStaysWithSentence ==
    (call.returned /\ call.maxChars >= 1) =>
        \A k \in 2..Len(call.starts) :
            ~(/\ call.starts[k] % 2 = 0
              /\ TrimSeq(Sentences(call.text)[call.starts[k] - 1]) # <<>>)

\* the chunks the documentation gives for the example
ExampleChunks ==
    << << "F", "i", "r", "s", "t", " ", "s", "e", "n", "t",
          "e", "n", "c", "e", "." >>,
       << "S", "e", "c", "o", "n", "d", " ", "o", "n", "e", "." >>,
       << "T", "h", "i", "r", "d", "." >> >>

\* C26: splitTextIntoChunks("First sentence. Second one. Third.", 15)
\* returns "First sentence.", "Second one.", "Third."; an empty text
\* returns no chunk.
C26_DocumentedExample ==
    call.returned =>
        /\ (call.text = ExampleText /\ call.maxChars = 15) =>
               call.chunks = ExampleChunks
        /\ call.text = <<>> => call.chunks = <<>>

\* The call on the text of the example has returned.
C26_Witness ==
    /\ call.returned
    /\ call.text = ExampleText /\ call.maxChars = 15
    /\ Len(call.chunks) = 3

\* C27: in a step that finds the play intent cleared and leaves it cleared
\* (the session was paused, or never played, and the step is no resume,
\* jump or start that plays) no clip source and no utterance is started and
\* the status does not become PLAYING; so also when the request for the
\* segment at the cursor settles after a pause.
C27_NothingBeginsWhilePaused ==
    [][(~isPlayingRef /\ ~isPlayingRef') =>
          /\ NothingBegins
          /\ status' = "PLAYING" => status = "PLAYING"]_vars

\* request f is a look-ahead of the current generation that is in flight
\* before and after this step
LookAheadInFlight(f) ==
    /\ f.waiter = "none" /\ f.sid = sessionIdRef
    /\ sessionIdRef' = sessionIdRef
    /\ f.index \in fetchingSetRef
    /\ BagIn(f, fetches') /\ ~Settles(f)

\* playback reaches segment i in this step: segment i-1 completes, or a
\* resume is made with the cursor on segment i
Reaches(i) ==
    \/ Completes(i - 1)
    \/ Resume /\ currentChunkIndex = i /\ isPlayingRef'

\* C28: a step in which playback reaches a segment whose look-ahead request,
\* made under the same generation, is still in flight does not put the
\* session in the ERROR status; and when such a request succeeds while the
\* session waits for its segment (play intent set, cursor on the segment,
\* status GENERATING_AUDIO), the segment begins playing.
C28_WaitsForLookAhead ==
    [][\A f \in BagToSet(fetches) :
           /\ (LookAheadInFlight(f) /\ Reaches(f.index)) => status' # "ERROR"
           /\ (/\ f.waiter = "none" /\ f.sid = sessionIdRef /\ Settles(f)
               /\ \E c \in audioCacheRef' : c.index = f.index
               /\ isPlayingRef /\ currentChunkIndex = f.index
               /\ status = "GENERATING_AUDIO")
              => BeginsPlaying(f.index)]_vars

\* a sleep timer is set and its time is used up, before and after this step
TimeIsUp == timerDuration > 0 /\ timeLeft = 0 /\ timeLeft' = 0

\* C29: when the clip of segment i begins, segment i+1 (if there is one) is
\* requested at once unless it is cached or already marked in flight; a
\* look-ahead request made in a later step (the delayed fill of i+2) is
\* made only with the play intent set and the generation of its clip
\* current; no request is ever made for a segment past the cursor by more
\* than 2 or outside the document, and none while the sleep timer's time is
\* used up.
C29_LookAheadPolicy ==
    [][/\ \A x \in BagToSet(sources') :
              (Begins(x) /\ x.index + 1 < Len(chunks') /\ ~TimeIsUp) =>
                  \/ x.index + 1 \in fetchingSetRef'
                  \/ \E c \in audioCacheRef' : c.index = x.index + 1
       /\ \A f \in BagToSet(fetches') :
              Issued(f) =>
                  /\ f.index >= 0 /\ f.index < Len(chunks')
                  /\ f.index <= currentChunkIndex' + 2
                  /\ ~TimeIsUp
                  /\ (f.waiter = "none" /\ NothingBegins) =>
                         isPlayingRef /\ f.sid = sessionIdRef]_vars

\* C30: the paused offset is 0 after every step in which a segment
\* finishes, the session is reset or a jump is made; a clip that begins
\* playing starts at offset 0 unless it resumes the segment that was paused
\* while its clip played, and then its offset is no more than the place the
\* audio had reached in that segment.
C30_OffsetBelongsToSegment ==
    [][/\ (Reset \/ Jump \/ \E i \in 0..NumSegments : Completes(i))
              => pausedTimeRef' = 0
       /\ \A x \in BagToSet(sources') :
              (Begins(x) /\ x.sid = sessionIdRef') =>
                  IF /\ position # NoPosition /\ position.paused
                     /\ x.index = position.index /\ x.sid = position.sid
                  THEN x.offset <= position.at
                  ELSE x.offset = 0]_vars

\* sourceNodeRef holds a clip source of the segment at the cursor that was
\* started and has neither been stopped nor ended
ActiveSource ==
    /\ sourceNodeRef # NoSource
    /\ ~sourceNodeRef.stopped /\ BagIn(sourceNodeRef, sources)
    /\ sourceNodeRef.index = currentChunkIndex
    /\ sourceNodeRef.sid = sessionIdRef

\* handlePause runs in this step: the pause control, or the sleep timer
\* running out
Pauses == Pause \/ (TimerTick /\ timeLeft' = 0)

\* C31: a pause made while no clip source plays the segment at the cursor
\* (the source was stopped by an earlier pause and none was started since,
\* or the segment has no source yet) leaves the paused offset as it is.
C31_PauseIdempotent ==
    [][(Pauses /\ ~ActiveSource) => pausedTimeRef' = pausedTimeRef]_vars

\* the clip sources that were started and have neither been stopped nor
\* ended, counted with their copies
Live ==
    BagCardinality([x \in {y \in BagToSet(sources) : ~y.stopped}
                       |-> CopiesIn(x, sources)])

\* C32: at most one playback is active at any time: the clip sources that
\* play and the utterances in the queue of the platform are never more than
\* one together.
C32_OnePlayback == Live + Len(utterances) <= 1

\* elapsedAudioTime as the pending callback of the highlight estimator
\* computes it now
EstimatedAudioTime ==
    (currentTime - startTimeRef) * animationFrame.rate + animationFrame.offset

\* C33: when the pause control is used on the clip backend while the
\* highlight estimator runs for a started source, the paused offset the
\* pause stores is the elapsedAudioTime (elapsed real time times the rate,
\* plus the offset the clip was started at) the estimator computes at that
\* instant, whatever the offset and the rate.
C33_PauseAgreesWithEstimator ==
    [][(/\ Pause /\ ttsEngine = "gemini"
        /\ animationFrame # NoFrame /\ sourceNodeRef # NoSource
        /\ audioContext # "null")
       => pausedTimeRef' = EstimatedAudioTime]_vars

\* the source the pending callback of the highlight estimator belongs to
\* was started and has neither been stopped nor ended
SourcePlays ==
    /\ sourceNodeRef # NoSource /\ audioContext # "null"
    /\ ~sourceNodeRef.stopped /\ BagIn(sourceNodeRef, sources)

\* C34: a tick of the highlight estimator does nothing when the play intent
\* is off, the generation of its call is stale or no source plays;
\* otherwise it sets the highlight index to
\* floor(elapsedAudioTime / clipDuration * segmentLength) and stays
\* scheduled while elapsedAudioTime < clipDuration, and sets it to
\* segmentLength and schedules no further tick once
\* elapsedAudioTime >= clipDuration; the index it sets lies within 0 and
\* segmentLength.
C34_EstimatorTick ==
    [][FrameFires =>
        IF ~isPlayingRef \/ sessionIdRef # animationFrame.sid \/ ~SourcePlays
        THEN chunkProgressIndex' = chunkProgressIndex
        ELSE /\ chunkProgressIndex' \in 0..SegmentLength
             /\ IF EstimatedAudioTime < ClipDuration
                THEN /\ chunkProgressIndex' =
                            (EstimatedAudioTime * SegmentLength)
                                \div ClipDuration
                     /\ animationFrame' = animationFrame
                ELSE /\ chunkProgressIndex' = SegmentLength
                     /\ animationFrame' = NoFrame]_vars

\* a tick has set the index of a clip that was started at an offset and
\* has not reached its end
C34_Witness ==
    /\ animationFrame # NoFrame /\ animationFrame.offset > 0
    /\ isPlayingRef /\ SourcePlays
    /\ chunkProgressIndex \in 1..(SegmentLength - 1)

\* C35: whenever the status is Playing the play intent is set: after a
\* pause, a finished run or an error of the backend, which clear the intent,
\* the status is not Playing.
C35_PlayingHasIntent == status = "PLAYING" => isPlayingRef

\* C36: every clip in the cache was synthesized with the voice that is
\* selected now, and every request in flight that may still store its clip
\* (its generation is the current one) asks for that voice: a change of
\* the voice leaves no clip of the previous voice to later playback.
C36_ClipsOfSelectedVoice ==
    /\ \A c \in audioCacheRef : c.voice = selectedVoice
    /\ \A f \in BagToSet(fetches) :
           f.sid = sessionIdRef => f.r.selectedVoice = selectedVoice

\* C37: the pause control changes only the play intent, the status, the
\* paused offset and what the backend does: the generation, the clips of
\* the cache, the in-flight set, the cursor, the segments and the time left
\* on the sleep timer stay as they are.
C37_PauseFrame ==
    [][Pause => UNCHANGED << sessionIdRef, audioCacheRef, fetchingSetRef,
                             currentChunkIndex, chunks, timeLeft,
                             timerDuration >>]_vars

\* paused while a clip played, with a clip in the cache and a request in
\* flight
C37_Witness ==
    /\ status = "READY_TO_PLAY" /\ ~isPlayingRef
    /\ sourceNodeRef # NoSource /\ ~BagIn(sourceNodeRef, sources)
    /\ pausedTimeRef > 0
    /\ audioCacheRef # {} /\ fetchingSetRef # {}

\* C38: the cursor is always valid: it is 0 when there are no segments, and
\* otherwise it names one of the segments, after any start, jump,
\* completion, pause, resume and reset.
C38_CursorValid ==
    IF chunks = <<>> THEN currentChunkIndex = 0
    ELSE currentChunkIndex \in 0..(Len(chunks) - 1)

\* the last segment plays, every segment before it having completed
C38_Witness ==
    /\ chunks # <<>> /\ currentChunkIndex = Len(chunks) - 1
    /\ status = "PLAYING" /\ isPlayingRef
    /\ BagIn(sourceNodeRef, sources)
    /\ sourceNodeRef.index = currentChunkIndex

\* C39: a fill that decodes its payload never lets a problem of the
\* decoding escape.  A payload of at least one sample decodes, an odd last
\* byte being dropped, to floor(n / 2) / numChannels frames, and its clip is
\* cached when the generation is current.  Any fault of the decoding is
\* handled like a failed request: no clip of the segment is cached and the
\* segment leaves the in-flight set.
C39_DecodeFaultsHandled ==
    [][FetchDecodes =>
        LET p == call'.payload
            d == call'.decoded
        IN  /\ (p.valid /\ p.byteLength >= 2 * NumChannels) =>
                  /\ ~d.fault
                  /\ d.frameCount = (p.byteLength \div 2) \div NumChannels
                  /\ call'.current =>
                        \E c \in audioCacheRef' : c.index = call'.index
            /\ d.fault =>
                  /\ \A c \in audioCacheRef' :
                        c.index = call'.index => c \in audioCacheRef
                  /\ call'.index \notin fetchingSetRef']_vars

\* a payload of an odd number of bytes was decoded and its clip is in the
\* cache of the current generation
C39_Witness ==
    /\ call # NoCall /\ call.payload.valid
    /\ call.payload.byteLength % 2 = 1 /\ ~call.decoded.fault
    /\ \E c \in audioCacheRef : c.index = call.index /\ c.sid = sessionIdRef

\* the audio parts of a response, in their order
RECURSIVE AudioOf(_)
AudioOf(ps) ==
    IF ps = <<>> THEN <<>>
    ELSE IF Head(ps).kind = "audio" THEN <<Head(ps).data>> \o AudioOf(Tail(ps))
    ELSE AudioOf(Tail(ps))

\* the last response carries no audio and says the model cannot read the
\* passage
CannotRead(c) ==
    /\ c.response.hasParts /\ AudioOf(c.response.parts) = <<>>
    /\ \E k \in 1..Len(c.response.parts) : c.response.parts[k].kind = "text"

SpeechDone == call.phase \in {"returned", "thrown"}

\* C40: a call of generateSpeechFromText makes at most 3 requests and
\* always ends.  A text that is empty after trimming throws without a
\* request.  A request answered with audio returns the first audio payload
\* of the answer.  A failed attempt that is not the last and is not marked
\* 'the model cannot read this passage' is followed, after a delay of
\* 1000 * 2^attempt ms, by one more request; a failure so marked, and the
\* failure of the third attempt, throw the error of that attempt.
C40_SpeechCallEnds ==
    /\ [](call.requests <= 3)
    /\ [][/\ SpeechCalled =>
                IF \A k \in 1..Len(call.text) : call.text[k] = " "
                THEN call'.phase = "thrown" /\ call'.requests = 0
                ELSE call'.phase = "requesting" /\ call'.requests = 1
          /\ RequestSettles =>
                LET audio == AudioOf(call'.response.parts) IN
                IF audio # <<>>
                THEN call'.phase = "returned" /\ call'.result = audio[1]
                ELSE IF CannotRead(call') \/ call.requests = 3
                THEN /\ call'.phase = "thrown"
                     /\ call'.lastError = call'.errors[Len(call'.errors)]
                     /\ CannotRead(call') <=> call'.lastError = "cannot read"
                ELSE /\ call'.phase = "waiting"
                     /\ call'.delays =
                            Append(call.delays, 1000 * 2 ^ call.attempt)
          /\ BackoffEnds =>
                /\ call'.requests = call.requests + 1
                /\ call'.attempt = call.attempt + 1
          /\ SpeechDone => call' = call]_vars
    /\ <>SpeechDone

\* the call threw the error of its third attempt, having slept 1000 ms and
\* 2000 ms between its three requests
C40_Witness ==
    /\ call.phase = "thrown" /\ call.requests = 3
    /\ call.delays = << 1000, 2000 >>
    /\ call.lastError = "rejected"

=============================================================================
